---- MODULE Spec2Model ----
(***************************************************************************)
(* Model of AdaptiveController                                             *)
(* (custom_components/adaptive_lighting/coordinator.py): the controller's  *)
(* fields, the Home Assistant collaborators it talks to (state machine,    *)
(* event bus, interval timer, event loop tasks) and one action per         *)
(* operation, callback or resumption point of a coroutine.                 *)
(***************************************************************************)
EXTENDS Integers, Sequences, FiniteSets, TLC

(* ------------------------------ bounds --------------------------------- *)
\* largest value of the wall clock (seconds)
MaxTime == 2
\* most asyncio tasks created by the turn-on branch whose done-callback has
\* not run yet
MaxTasks == 2
\* most subscription handles alive at once
MaxSubs == 2

(* ----------------------------- constants ------------------------------- *)
\* the light entities known to the state machine, in async_all() order
Order == <<"light.a", "light.b">>
Entities == {Order[i] : i \in 1..Len(Order)}
NoEnt == "-"
\* a None reference (self._unsub = None, dict key absent)
None == 0
\* Settings.interval
Interval == 120
\* the grace period of the manual-adjustment test
GracePeriod == 1
\* default of self._last_automation_change.get(entity_id, 0)
NoAutomationChange == 0

\* what the attributes of a light advertise: the mode _discover_targets
\* gives it
Mode(e) == IF e = "light.a" THEN "ct" ELSE "rgb"

BaseAttrs == [brightness |-> 0, color_temp |-> 0, rgb_color |-> 0]
AttrChoices == {BaseAttrs,
                [BaseAttrs EXCEPT !.brightness = 1],
                [BaseAttrs EXCEPT !.color_temp = 1],
                [BaseAttrs EXCEPT !.rgb_color = 1]}
ExcludeChoices == {{}, {"light.a"}, {"light.b"}}

VARIABLES
    clock,                  \* time.time(), in seconds
    light,                  \* hass.states: entity -> "on" | "off" | "none"
    timers,                 \* live async_track_time_interval subscriptions
    listeners,              \* live bus.async_listen subscriptions
    settings,               \* self.settings
    unsub,                  \* self._unsub
    event_unsub,            \* self._event_unsub
    unsub_error,            \* a handle was called after it was removed
    enabled,                \* self._enabled
    manual_hold_entities,   \* self._manual_hold_entities
    last_automation_change, \* self._last_automation_change
    tasks,                  \* the asyncio tasks made by the turn-on branch,
                            \* and which of them self._pending_tasks holds
    tick_pc,                \* where the _apply_all coroutine stands
    tick_left,              \* targets.items() not yet reached by its loop
    tick_cur,               \* the entity its _apply_light_settings is on
    tick_off,               \* that entity turned off during the delay
    last,                   \* what the latest step did
    calc                    \* the call of a helper under study: its
                            \* arguments, and its result once it returned

vars == <<clock, light, timers, listeners, settings, unsub, event_unsub,
          unsub_error, enabled, manual_hold_entities, last_automation_change,
          tasks, tick_pc, tick_left, tick_cur, tick_off, last, calc>>

\* An asyncio task made by the turn-on branch: the entity of its apply
\* sequence, where the coroutine stands ("created": not yet run, "sleeping":
\* in asyncio.sleep, "done": returned, raised or cancelled, done-callback
\* due), whether the entity went off during its sleep, and whether
\* self._pending_tasks[ent] is this task. Tasks in the same condition are
\* counted, not named.
Task(e, st, off, tracked) ==
    [ent |-> e, st |-> st, off |-> off, tracked |-> tracked]
TaskKinds ==
    {Task(e, "created", FALSE, tr) : e \in Entities, tr \in BOOLEAN}
    \cup {Task(e, "sleeping", off, tr) :
             e \in Entities, off \in BOOLEAN, tr \in BOOLEAN}
    \cup {Task(e, "done", FALSE, tr) : e \in Entities, tr \in BOOLEAN}
Created == {k \in TaskKinds : k.st = "created"}
Sleeping == {k \in TaskKinds : k.st = "sleeping"}
Finished == {k \in TaskKinds : k.st = "done"}

\* who issues a write: the periodic tick or a task of the turn-on branch
TickSeq == "tick"
TaskSeq == "task"
NoSeq == "-"
\* marks a notification handled in the step after a colour write to the
\* same entity, at the same reading of the clock
AfterWrite == "after_write"
\* marks a notification handled in the step after a brightness write to the
\* same entity, while the sequence that wrote is in its delay
AfterBrightness == "after_brightness"

\* no helper call is under study
NoCalc == [fn |-> "-"]

Did(op, e, s, p) == [op |-> op, ent |-> e, seq |-> s, pre |-> p]
\* a step the claims need no record of
Quiet == Did("-", NoEnt, NoSeq, FALSE)

(* ------------------------- _discover_targets --------------------------- *)
allowed(s, e) == e \notin s.exclude_entities

\* the entities with a state, not excluded, whose attributes give a mode
DiscoverTargets == {e \in Entities : light[e] # "none" /\ allowed(settings, e)}

(* ------------------------------ start/stop ----------------------------- *)
\* calling a subscription's remove function
CallUnsub(h, live) == live \ {h}
CallIsStale(h, live) == h \notin live

\* stop() that calls the handle and keeps the field
StopKeepsHandle(h) == h
\* self._unsub = None / self._event_unsub = None after the handle is called
StopClearsHandle(h) == None

NewHandle(live) == CHOOSE h \in 1..MaxSubs : h \notin live

\* the fields after stop(): <<timers, unsub, listeners, event_unsub, error>>
StopResult ==
    LET t == IF unsub # None THEN CallUnsub(unsub, timers) ELSE timers
        u == IF unsub # None THEN StopClearsHandle(unsub) ELSE unsub
        l == IF event_unsub # None THEN CallUnsub(event_unsub, listeners)
             ELSE listeners
        v == IF event_unsub # None THEN StopClearsHandle(event_unsub)
             ELSE event_unsub
        x == \/ unsub_error
             \/ unsub # None /\ CallIsStale(unsub, timers)
             \/ event_unsub # None /\ CallIsStale(event_unsub, listeners)
    IN  [timers |-> t, unsub |-> u, listeners |-> l, event_unsub |-> v,
         error |-> x]

Stop ==
    /\ timers' = StopResult.timers
    /\ unsub' = StopResult.unsub
    /\ listeners' = StopResult.listeners
    /\ event_unsub' = StopResult.event_unsub
    /\ unsub_error' = StopResult.error
    /\ last' = Did("stop", NoEnt, NoSeq, last.op = "stop")
    /\ UNCHANGED <<calc, clock, light, settings, enabled,
                   manual_hold_entities, last_automation_change,
                   tasks, tick_pc, tick_left, tick_cur,
                   tick_off>>

\* a start() that subscribes without stopping first
StartWithoutStop ==
    [timers |-> timers, unsub |-> unsub, listeners |-> listeners,
     event_unsub |-> event_unsub, error |-> unsub_error]
\* start() begins with self.stop()
StopFirst == StopResult

Start ==
    LET s == StopFirst
    IN  /\ \E h \in 1..MaxSubs : h \notin s.timers
        /\ \E h \in 1..MaxSubs : h \notin s.listeners
        /\ unsub' = NewHandle(s.timers)
        /\ timers' = s.timers \cup {NewHandle(s.timers)}
        /\ event_unsub' = NewHandle(s.listeners)
        /\ listeners' = s.listeners \cup {NewHandle(s.listeners)}
        /\ unsub_error' = s.error
        /\ last' = Did("start", NoEnt, NoSeq, unsub # None)
        /\ UNCHANGED <<calc, clock, light, settings, enabled,
                       manual_hold_entities, last_automation_change,
                       tasks, tick_pc, tick_left, tick_cur,
                       tick_off>>

SetEnabled(b) ==
    /\ enabled' = b
    /\ last' = Quiet
    /\ UNCHANGED <<calc, clock, light, timers, listeners, settings, unsub,
                   event_unsub, unsub_error, manual_hold_entities,
                   last_automation_change, tasks, tick_pc,
                   tick_left, tick_cur, tick_off>>

\* Settings.interval is a property returning the same number for every
\* Settings object
IntervalOf(s) == Interval

\* an update that restarts the timer whatever the intervals are
RestartsAlways(old_interval, new) == unsub # None
\* if old_interval != new_settings.interval: if self._unsub:
RestartsTimer(old_interval, new) ==
    old_interval # IntervalOf(new) /\ unsub # None

UpdateSettings(new) ==
    LET old_interval == IntervalOf(settings)
        restart == RestartsTimer(old_interval, new)
    IN  /\ settings' = new
        /\ timers' = IF restart
                     THEN CallUnsub(unsub, timers)
                          \cup {NewHandle(CallUnsub(unsub, timers))}
                     ELSE timers
        /\ unsub' = IF restart THEN NewHandle(CallUnsub(unsub, timers))
                    ELSE unsub
        /\ unsub_error' = (unsub_error \/ (restart /\ CallIsStale(unsub, timers)))
        /\ last' = Did("update_settings", NoEnt, NoSeq, restart)
        /\ UNCHANGED <<calc, clock, light, listeners, event_unsub, enabled,
                       manual_hold_entities, last_automation_change,
                       tasks, tick_pc, tick_left, tick_cur,
                       tick_off>>

(* ----------------------- _apply_light_settings ------------------------- *)
\* The module binds the name `time` twice: `import time` and then
\* `from datetime import timedelta, time`. The later binding wins, so in
\* _apply_light_settings `time` is the class datetime.time, which has no
\* attribute `time`.
TimeModuleBound == FALSE

\* self._last_automation_change[ent_id] = time.time(): evaluating the right
\* hand side raises AttributeError before the store
Step5Raises == ~TimeModuleBound

\* the map after step 5
RecordChange(m, e, t) == IF Step5Raises THEN m ELSE [m EXCEPT ![e] = t]

\* a re-check that looks for "off" only
RecheckOffOnly(e) == light[e] = "off"
\* state = self.hass.states.get(ent_id); if not state or state.state != "on"
RecheckAborts(e) == light[e] # "on"

\* a choice of payload that takes every light for a colour-temperature light
ColorKindAlwaysCt(mode) == "write_ct"
\* color_payload = data_ct_color if mode == "ct" else data_rgb_color
ColorKind(mode) == IF mode = "ct" THEN "write_ct" ELSE "write_rgb"

IsColorWrite(l) == l.op \in {"write_ct", "write_rgb"}
IsWrite(l) == l.op = "write_b" \/ IsColorWrite(l)

(* --------------------------- asyncio tasks ----------------------------- *)
Count(ts) ==
    LET RECURSIVE Sum(_)
        Sum(S) == IF S = {} THEN 0
                  ELSE LET k == CHOOSE x \in S : TRUE
                       IN  ts[k] + Sum(S \ {k})
    IN  Sum(TaskKinds)

Add(ts, k) == [ts EXCEPT ![k] = @ + 1]
Remove(ts, k) == [ts EXCEPT ![k] = @ - 1]
\* one task in condition k comes to be in condition k2
Move(ts, k, k2) == Add(Remove(ts, k), k2)

Alive(k) == k.st \in {"created", "sleeping"}

\* entity_id in self._pending_tasks, and the task it maps to
HasPending(ts, e) == \E k \in TaskKinds : k.ent = e /\ k.tracked /\ ts[k] > 0
PendingOf(ts, e) == CHOOSE k \in TaskKinds : k.ent = e /\ k.tracked /\ ts[k] > 0

\* task.cancel(): a task that has not finished is cancelled at its
\* suspension point (or before its first step) and does nothing further;
\* its done-callbacks are then due
Cancel(k) == IF Alive(k) THEN Task(k.ent, "done", FALSE, k.tracked) ELSE k

\* first step of the task: brightness write, then asyncio.sleep
TaskStart(k) ==
    /\ tasks[k] > 0
    /\ tasks' = Move(tasks, k, [k EXCEPT !.st = "sleeping"])
    /\ last' = Did("write_b", k.ent, TaskSeq, FALSE)
    /\ UNCHANGED <<calc, clock, light, timers, listeners, settings, unsub,
                   event_unsub, unsub_error, enabled, manual_hold_entities,
                   last_automation_change, tick_pc, tick_left,
                   tick_cur, tick_off>>

\* the task resumes after the sleep: re-check, colour write, step 5; it
\* ends by returning or by the exception, and its done-callbacks are due
TaskWake(k) ==
    LET e == k.ent
    IN  /\ tasks[k] > 0
        /\ tasks' = Move(tasks, k, Task(e, "done", FALSE, k.tracked))
        /\ IF RecheckAborts(e)
           THEN /\ last' = Did("abort", e, TaskSeq, k.off)
                /\ UNCHANGED last_automation_change
           ELSE /\ last' = Did(ColorKind(Mode(e)), e, TaskSeq, k.off)
                /\ last_automation_change' =
                       RecordChange(last_automation_change, e, clock)
        /\ UNCHANGED <<calc, clock, light, timers, listeners, settings, unsub,
                       event_unsub, unsub_error, enabled,
                       manual_hold_entities, tick_pc,
                       tick_left, tick_cur, tick_off>>

\* del self._pending_tasks[e], if e is a key: no task of e is held
DropPending(ts, e) ==
    [k \in TaskKinds |->
        IF k.ent # e THEN ts[k]
        ELSE IF k.tracked THEN 0
        ELSE ts[k] + ts[[k EXCEPT !.tracked = TRUE]]]

\* def cleanup(_): if entity_id in self._pending_tasks: del ...
CleanupEntry(ts, e) == DropPending(ts, e)

\* a task made without task.add_done_callback(cleanup): when it is over
\* nothing removes the entry that holds it
CleanupNotRegistered(k) ==
    /\ tasks[k] > 0
    /\ ~k.tracked
    /\ tasks' = Remove(tasks, k)
    /\ last' = Did("cleanup", k.ent, TaskSeq, FALSE)
    /\ UNCHANGED <<calc, clock, light, timers, listeners, settings, unsub,
                   event_unsub, unsub_error, enabled, manual_hold_entities,
                   last_automation_change, tick_pc, tick_left, tick_cur,
                   tick_off>>
\* the done-callback of a finished, failed or cancelled task
Cleanup(k) ==
    /\ tasks[k] > 0
    /\ tasks' = CleanupEntry(Remove(tasks, k), k.ent)
    /\ last' = Did("cleanup", k.ent, TaskSeq,
                   ~k.tracked /\ HasPending(tasks, k.ent))
    /\ UNCHANGED <<calc, clock, light, timers, listeners, settings, unsub,
                   event_unsub, unsub_error, enabled, manual_hold_entities,
                   last_automation_change, tick_pc, tick_left, tick_cur,
                   tick_off>>

(* ------------------------------ _apply_all ----------------------------- *)
\* the loop's three `continue` tests
Eligible(e) ==
    /\ light[e] # "none"
    /\ light[e] = "on"
    /\ e \notin manual_hold_entities

RECURSIVE SkipIneligible(_)
SkipIneligible(s) ==
    IF s = <<>> THEN s
    ELSE IF Eligible(Head(s)) THEN s
    ELSE SkipIneligible(Tail(s))

\* run the loop from the items `s` up to its next suspension point: the
\* coroutine's position, the items left and the entity it writes to
TickRun(s) ==
    LET rest == SkipIneligible(s)
        gone == \E i \in 1..(Len(s) - Len(rest)) : light[s[i]] = "none"
    IN  IF rest = <<>>
        THEN [pc |-> "done", left |-> <<>>, cur |-> NoEnt, gone |-> gone]
        ELSE [pc |-> "sleep", left |-> Tail(rest), cur |-> Head(rest),
              gone |-> gone]

\* the record of a step of the loop; `pre` tells whether it passed over an
\* entity whose state is missing
TickDid(r) ==
    IF r.pc = "done" THEN Did("tick_end", NoEnt, TickSeq, r.gone)
    ELSE Did("write_b", r.cur, TickSeq, r.gone)

\* the interval timer calls _apply_all
TickFire ==
    LET r == IF ~enabled
             THEN [pc |-> "done", left |-> <<>>, cur |-> NoEnt,
                   gone |-> FALSE]
             ELSE TickRun(SelectSeq(Order, LAMBDA e : e \in DiscoverTargets))
    IN  /\ timers # {}
        /\ tick_pc \in {"idle", "done"}
        /\ tick_pc' = r.pc
        /\ tick_left' = r.left
        /\ tick_cur' = r.cur
        /\ tick_off' = FALSE
        /\ last' = IF ~enabled
                   THEN Did("tick_disabled", NoEnt, TickSeq, FALSE)
                   ELSE TickDid(r)
        /\ UNCHANGED <<calc, clock, light, timers, listeners, settings,
                       unsub, event_unsub, unsub_error, enabled,
                       manual_hold_entities, last_automation_change,
                       tasks>>

\* what _apply_all does once the sequence it awaits has issued its colour
\* write: step 5 raises, the exception leaves _apply_light_settings and,
\* uncaught, _apply_all, so the items left are never reached
TickAfterColor(s) ==
    IF Step5Raises
    THEN [pc |-> "done", left |-> s, cur |-> tick_cur, gone |-> FALSE]
    ELSE TickRun(s)

\* _apply_all resumes after the sleep of the sequence it awaits
TickWake ==
    /\ tick_pc = "sleep"
    /\ IF RecheckAborts(tick_cur)
       THEN /\ tick_pc' = TickRun(tick_left).pc
            /\ tick_left' = TickRun(tick_left).left
            /\ tick_cur' = TickRun(tick_left).cur
            /\ tick_off' = FALSE
            /\ last' = TickDid(TickRun(tick_left))
            /\ UNCHANGED last_automation_change
       ELSE /\ tick_pc' = TickAfterColor(tick_left).pc
            /\ tick_left' = TickAfterColor(tick_left).left
            /\ tick_cur' = TickAfterColor(tick_left).cur
            /\ tick_off' = tick_off
            /\ last' = Did(ColorKind(Mode(tick_cur)), tick_cur, TickSeq,
                           tick_off)
            /\ last_automation_change' =
                   RecordChange(last_automation_change, tick_cur, clock)
    /\ UNCHANGED <<calc, clock, light, timers, listeners, settings, unsub,
                   event_unsub, unsub_error, enabled, manual_hold_entities,
                   tasks>>

(* ------------------------ _handle_light_turn_on ------------------------ *)
\* The bus runs the handler in the step that fires the event: the coroutine
\* has no suspension point, so it runs to its end in one piece, with
\* hass.states already holding the new state.
IsLight(e) == e \in Entities

Event(e, new, a) ==
    [ent |-> e, old |-> light[e], new |-> new, ts |-> clock,
     old_attrs |-> BaseAttrs, new_attrs |-> a]

\* a handler without the test of the switch
BranchIgnoresSwitch(ev, found) ==
    IF ~IsLight(ev.ent) THEN "return"
    ELSE IF ev.new = "none" THEN "return"
    ELSE IF ev.ent \notin found THEN "return"
    ELSE IF ev.new = "off" /\ ev.old = "on" THEN "turn_off"
    ELSE IF ev.new = "on" /\ ev.old # "on" THEN "turn_on"
    ELSE IF ev.new = "on" /\ ev.old = "on" THEN "adjust"
    ELSE "return"
\* the branch of the handler an event takes; `found` is the result of
\* _discover_targets
Branch(ev, found) ==
    IF ~enabled THEN "return"
    ELSE IF ~IsLight(ev.ent) THEN "return"
    ELSE IF ev.new = "none" THEN "return"
    ELSE IF ev.ent \notin found THEN "return"
    ELSE IF ev.new = "off" /\ ev.old = "on" THEN "turn_off"
    ELSE IF ev.new = "on" /\ ev.old # "on" THEN "turn_on"
    ELSE IF ev.new = "on" /\ ev.old = "on" THEN "adjust"
    ELSE "return"

\* _discover_targets once hass.states holds the event's new state
FoundAfter(ev) ==
    {x \in Entities : /\ (IF x = ev.ent THEN ev.new ELSE light[x]) # "none"
                      /\ allowed(settings, x)}

\* the sequences of e that are waiting for their colour write see it go off
MarkOff(ts, e, new) ==
    [k \in TaskKinds |->
        IF new = "off" /\ k.ent = e /\ k.st = "sleeping"
        THEN IF k.off THEN ts[k] + ts[[k EXCEPT !.off = FALSE]] ELSE 0
        ELSE ts[k]]

\* hass.states takes the new state of e and the bus fires state_changed
Changes(ev) ==
    /\ listeners # {}
    /\ ev.new # ev.old \/ ev.new = "on"
    /\ ev.new = ev.old \/ ev.new_attrs = BaseAttrs
    /\ light' = [light EXCEPT ![ev.ent] = ev.new]
    /\ tick_off' = (tick_off \/ (ev.new = "off" /\ tick_pc = "sleep"
                                 /\ tick_cur = ev.ent))

\* the handler returns without touching the controller
HandleReturn(ev) ==
    /\ Changes(ev)
    /\ Branch(ev, FoundAfter(ev)) = "return"
    /\ tasks' = MarkOff(tasks, ev.ent, ev.new)
    /\ last' = Did("ev_return", ev.ent, NoSeq, enabled)
    /\ UNCHANGED <<calc, clock, timers, listeners, settings, unsub, event_unsub,
                   unsub_error, enabled, manual_hold_entities,
                   last_automation_change, tick_pc,
                   tick_left, tick_cur>>

\* a handler that drops the entry without cancelling the task
CancelPendingForgets(ts, e) == ts
\* if entity_id in self._pending_tasks: ....cancel()
CancelPending(ts, e) ==
    IF HasPending(ts, e)
    THEN Move(ts, PendingOf(ts, e), Cancel(PendingOf(ts, e)))
    ELSE ts

\* a turn-off branch that releases the entity
TurnOffClearsHold(h, e) == h \ {e}
\* the turn-off branch has no statement on self._manual_hold_entities
TurnOffHold(h, e) == h

HandleTurnOff(ev) ==
    LET e == ev.ent
    IN  /\ Changes(ev)
        /\ Branch(ev, FoundAfter(ev)) = "turn_off"
        /\ tasks' = DropPending(CancelPending(MarkOff(tasks, e, ev.new), e), e)
        /\ manual_hold_entities' = TurnOffHold(manual_hold_entities, e)
        /\ last' = Did("ev_off", e, NoSeq,
                       HasPending(tasks, e) /\ Alive(PendingOf(tasks, e)))
        /\ UNCHANGED <<calc, clock, timers, listeners, settings, unsub,
                       event_unsub, unsub_error, enabled,
                       last_automation_change,
                       tick_pc, tick_left, tick_cur>>

\* a turn-on branch that leaves the hold set alone
TurnOnKeepsHold(h, e) == h
\* self._manual_hold_entities.discard(entity_id)
TurnOnHold(h, e) == h \ {e}

\* task = asyncio.create_task(...); self._pending_tasks[entity_id] = task
CreateTask(ts, e) == Add(ts, Task(e, "created", FALSE, TRUE))

HandleTurnOn(ev) ==
    LET e == ev.ent
    IN  /\ Changes(ev)
        /\ Branch(ev, FoundAfter(ev)) = "turn_on"
        /\ Count(tasks) < MaxTasks
        /\ manual_hold_entities' = TurnOnHold(manual_hold_entities, e)
        /\ tasks' = CreateTask(DropPending(CancelPending(tasks, e), e), e)
        /\ last' = Did("ev_on", e, NoSeq, e \in manual_hold_entities)
        /\ UNCHANGED <<calc, clock, timers, listeners, settings, unsub,
                       event_unsub, unsub_error, enabled,
                       last_automation_change, tick_pc, tick_left, tick_cur>>

\* a comparison that leaves rgb_color out
AttrsDifferNoRgb(ev) ==
    \/ ev.old_attrs.brightness # ev.new_attrs.brightness
    \/ ev.old_attrs.color_temp # ev.new_attrs.color_temp
\* brightness_changed or color_temp_changed or rgb_color_changed
AttrsDiffer(ev) ==
    \/ ev.old_attrs.brightness # ev.new_attrs.brightness
    \/ ev.old_attrs.color_temp # ev.new_attrs.color_temp
    \/ ev.old_attrs.rgb_color # ev.new_attrs.rgb_color

\* if state_changed > last_automation + 1
AfterAutomation(ts, last_automation) == ts > last_automation + GracePeriod

\* the two nested tests of the manual-adjustment branch
IsManual(ev, last_automation) ==
    AfterAutomation(ev.ts, last_automation) /\ AttrsDiffer(ev)

HandleAdjust(ev) ==
    LET e == ev.ent
        last_automation == last_automation_change[e]
    IN  /\ Changes(ev)
        /\ Branch(ev, FoundAfter(ev)) = "adjust"
        /\ manual_hold_entities' =
               IF IsManual(ev, last_automation)
               THEN manual_hold_entities \cup {e}
               ELSE manual_hold_entities
        /\ last' = Did("ev_adjust", e,
                       IF IsColorWrite(last) /\ last.ent = e
                       THEN AfterWrite
                       ELSE IF last.op = "write_b" /\ last.ent = e
                       THEN AfterBrightness
                       ELSE NoSeq,
                       IsManual(ev, last_automation))
        /\ UNCHANGED <<calc, clock, timers, listeners, settings, unsub,
                       event_unsub, unsub_error, enabled,
                       last_automation_change, tasks,
                       tick_pc, tick_left, tick_cur>>

(* --------------------------- the environment --------------------------- *)
\* a light changes state while the controller listens to no events
LightSet(e, s) ==
    /\ listeners = {}
    /\ light[e] # s
    /\ light' = [light EXCEPT ![e] = s]
    /\ tasks' = MarkOff(tasks, e, s)
    /\ tick_off' = (tick_off \/ (s = "off" /\ tick_pc = "sleep" /\ tick_cur = e))
    /\ last' = Quiet
    /\ UNCHANGED <<calc, clock, timers, listeners, settings, unsub, event_unsub,
                   unsub_error, enabled, manual_hold_entities,
                   last_automation_change, tick_pc,
                   tick_left, tick_cur>>

Advance ==
    /\ clock < MaxTime
    /\ clock' = clock + 1
    /\ last' = Quiet
    /\ UNCHANGED <<calc, light, timers, listeners, settings, unsub,
                   event_unsub, unsub_error, enabled, manual_hold_entities,
                   last_automation_change, tasks, tick_pc,
                   tick_left, tick_cur, tick_off>>

(* --------------------------- specification ----------------------------- *)
\* AdaptiveController.__init__ at wall-clock time t, the lights on or off
InitAt(t) ==
    /\ clock = t
    /\ light \in [Entities -> {"on", "off"}]
    /\ timers = {}
    /\ listeners = {}
    /\ settings = [exclude_entities |-> {}]
    /\ unsub = None
    /\ event_unsub = None
    /\ unsub_error = FALSE
    /\ enabled = TRUE
    /\ manual_hold_entities = {}
    /\ last_automation_change = [e \in Entities |-> NoAutomationChange]
    /\ tasks = [k \in TaskKinds |-> 0]
    /\ tick_pc = "idle"
    /\ tick_left = <<>>
    /\ tick_cur = NoEnt
    /\ tick_off = FALSE
    /\ last = Quiet
    /\ calc = NoCalc

Init == InitAt(MaxTime)

Manual == [BaseAttrs EXCEPT !.brightness = 1]

\* the scheduler: ticks, notifications and apply sequences of a controller
\* that is started and not stopped again
Next ==
    \/ Start
    \/ \E b \in BOOLEAN : SetEnabled(b)
    \/ TickFire
    \/ TickWake
    \/ \E k \in Created : TaskStart(k)
    \/ \E k \in Sleeping : TaskWake(k)
    \/ \E k \in Finished : Cleanup(k)
    \/ \E e \in Entities, s \in {"on", "off"} :
          HandleReturn(Event(e, s, BaseAttrs))
    \/ \E e \in Entities : HandleTurnOff(Event(e, "off", BaseAttrs))
    \/ \E e \in Entities : HandleTurnOn(Event(e, "on", BaseAttrs))
    \/ \E e \in Entities : HandleAdjust(Event(e, "on", Manual))

Spec == Init /\ [][Next]_vars

\* the handler on any notification: whichever branch it takes
Handled(ev) ==
    \/ HandleReturn(ev)
    \/ HandleTurnOff(ev)
    \/ HandleTurnOn(ev)
    \/ HandleAdjust(ev)

\* apply sequences of e between their brightness write and their end
InFlightOf(ts, pc, cur, e) ==
    LET RECURSIVE Sum(_)
        Sum(S) == IF S = {} THEN 0
                  ELSE LET k == CHOOSE x \in S : TRUE
                       IN  ts[k] + Sum(S \ {k})
    IN  Sum({k \in Sleeping : k.ent = e})
        + (IF pc = "sleep" /\ cur = e THEN 1 ELSE 0)

InFlight(e) == InFlightOf(tasks, tick_pc, tick_cur, e)

\* tasks of e that have not finished and are not cancelled
AliveTasks(ts, e) ==
    LET RECURSIVE Sum(_)
        Sum(S) == IF S = {} THEN 0
                  ELSE LET k == CHOOSE x \in S : TRUE
                       IN  ts[k] + Sum(S \ {k})
    IN  Sum({k \in TaskKinds : k.ent = e /\ Alive(k)})

\* notifications of two lights and their apply sequences, at one reading
\* of the clock: no ticks
NextOff ==
    \/ Start
    \/ \E b \in BOOLEAN : SetEnabled(b)
    \/ \E k \in Created : TaskStart(k)
    \/ \E k \in Sleeping : TaskWake(k)
    \/ \E k \in Finished : Cleanup(k)
    \/ \E e \in Entities, s \in {"on", "off"} :
          HandleReturn(Event(e, s, BaseAttrs))
    \/ \E e \in Entities : HandleTurnOff(Event(e, "off", BaseAttrs))
    \/ \E e \in Entities : HandleTurnOn(Event(e, "on", BaseAttrs))
    \/ \E e \in Entities : HandleAdjust(Event(e, "on", Manual))

SpecOff == Init /\ [][NextOff]_vars

\* the notifications of one light over the run of the clock, with every
\* choice of attributes: no ticks
InitHold == InitAt(0)

Watched == {"light.a"}

NextHold ==
    \/ Start
    \/ \E b \in BOOLEAN : SetEnabled(b)
    \/ Advance
    \/ \E k \in Created : TaskStart(k)
    \/ \E k \in Sleeping : TaskWake(k)
    \/ \E k \in Finished : Cleanup(k)
    \/ \E e \in Watched, s \in {"on", "off"} :
          HandleReturn(Event(e, s, BaseAttrs))
    \/ \E e \in Watched : HandleTurnOff(Event(e, "off", BaseAttrs))
    \/ \E e \in Watched : HandleTurnOn(Event(e, "on", BaseAttrs))
    \/ \E e \in Watched, a \in AttrChoices : HandleAdjust(Event(e, "on", a))

SpecHold == InitHold /\ [][NextHold]_vars

\* the controller's life cycle: start, stop, settings, the switch, the timer
NextLife ==
    \/ Start
    \/ Stop
    \/ \E b \in BOOLEAN : SetEnabled(b)
    \/ \E x \in ExcludeChoices : UpdateSettings([exclude_entities |-> x])
    \/ \E e \in Entities, s \in {"on", "off"} : LightSet(e, s)
    \/ TickFire
    \/ TickWake

SpecLife == Init /\ [][NextLife]_vars

\* settings updates among the notifications and apply sequences of one
\* light, at one reading of the clock: no ticks
NextSet ==
    \/ Start
    \/ Stop
    \/ \E b \in BOOLEAN : SetEnabled(b)
    \/ \E x \in ExcludeChoices : UpdateSettings([exclude_entities |-> x])
    \/ \E k \in Created : TaskStart(k)
    \/ \E k \in Sleeping : TaskWake(k)
    \/ \E k \in Finished : Cleanup(k)
    \/ \E e \in Watched, s \in {"on", "off"} :
          HandleReturn(Event(e, s, BaseAttrs))
    \/ \E e \in Watched : HandleTurnOff(Event(e, "off", BaseAttrs))
    \/ \E e \in Watched : HandleTurnOn(Event(e, "on", BaseAttrs))
    \/ \E e \in Watched : HandleAdjust(Event(e, "on", Manual))

SpecSet == Init /\ [][NextSet]_vars

\* ticks over two lights whose state is removed from the state machine and
\* added again, and the turn-on sequences of one of them, on an enabled
\* controller
NextGone ==
    \/ Start
    \/ TickFire
    \/ TickWake
    \/ \E k \in Created : TaskStart(k)
    \/ \E k \in Sleeping : TaskWake(k)
    \/ \E k \in Finished : Cleanup(k)
    \/ \E e \in Entities, s \in {"off", "none"} :
          HandleReturn(Event(e, s, BaseAttrs))
    \/ \E e \in Watched : HandleTurnOff(Event(e, "off", BaseAttrs))
    \/ \E e \in Watched : HandleTurnOn(Event(e, "on", BaseAttrs))

SpecGone == Init /\ [][NextGone]_vars

\* the whole controller around one light: its life cycle, the switch, the
\* settings, ticks over both lights, and the notifications and turn-on
\* sequences of the watched light, at one reading of the clock
NextOne ==
    \/ Start
    \/ Stop
    \/ \E b \in BOOLEAN : SetEnabled(b)
    \/ \E x \in {{}, Watched} : UpdateSettings([exclude_entities |-> x])
    \/ TickFire
    \/ TickWake
    \/ \E k \in Created : TaskStart(k)
    \/ \E k \in Sleeping : TaskWake(k)
    \/ \E k \in Finished : Cleanup(k)
    \/ \E e \in Watched, s \in {"on", "off"} :
          HandleReturn(Event(e, s, BaseAttrs))
    \/ \E e \in Watched : HandleTurnOff(Event(e, "off", BaseAttrs))
    \/ \E e \in Watched : HandleTurnOn(Event(e, "on", BaseAttrs))
    \/ \E e \in Watched : HandleAdjust(Event(e, "on", Manual))

\* the other light is on and stays on
InitOne == Init /\ \A e \in Entities \ Watched : light[e] = "on"

SpecOne == InitOne /\ [][NextOne]_vars

\* the turn-on and turn-off notifications of one light, which arrive until
\* the clock reads MaxTime and not after, and the sequences they start
NextEnd ==
    \/ Start
    \/ Advance
    \/ \E k \in Created : TaskStart(k)
    \/ \E k \in Sleeping : TaskWake(k)
    \/ \E k \in Finished : Cleanup(k)
    \/ \E e \in Watched :
          clock < MaxTime /\ HandleTurnOff(Event(e, "off", BaseAttrs))
    \/ \E e \in Watched :
          clock < MaxTime /\ HandleTurnOn(Event(e, "on", BaseAttrs))

\* The event loop runs every task that is ready, ends every asyncio.sleep
\* and calls the done-callbacks of every task that is over; the wall clock
\* goes on.
EventLoop ==
    /\ WF_vars(Advance)
    /\ WF_vars(\E k \in Created : TaskStart(k))
    /\ WF_vars(\E k \in Sleeping : TaskWake(k))
    /\ WF_vars(\E k \in Finished : Cleanup(k))

SpecEnd == InitHold /\ [][NextEnd]_vars /\ EventLoop

(* ------------------------------- util.py ------------------------------- *)
\* Times of day are counted in whole minutes since midnight; a number that
\* the code holds as a float is held as a fraction n/d with d > 0.
MinutesPerDay == 1440

Frac(n, d) == [n |-> n, d |-> d]
Less(x, y) == x.n * y.d < y.n * x.d

\* max(lo, min(hi, v))
clamp(v, lo, hi) ==
    LET m == IF Less(v, hi) THEN v ELSE hi
    IN  IF Less(m, lo) THEN lo ELSE m

\* an interpolation that runs from b to a
LerpSwapped(a, b, t) == Frac(b * t.d + (a - b) * t.n, t.d)
\* a + (b - a) * t
lerp(a, b, t) == Frac(a * t.d + (b - a) * t.n, t.d)

\* round(): to the nearest integer, a tie to the even one
round(x) ==
    LET q == x.n \div x.d
        r == x.n - q * x.d
    IN  IF 2 * r < x.d THEN q
        ELSE IF 2 * r > x.d THEN q + 1
        ELSE IF q % 2 = 0 THEN q ELSE q + 1

\* datetime.strptime(s, "%H:%M").time() of the text <<hours, minutes>>
parse_time_str(s) == s[1] * 60 + s[2]

\* a window that takes its end in
InWindowClosed(now_t, start, end) ==
    IF start <= end THEN start <= now_t /\ now_t <= end
    ELSE now_t >= start \/ now_t <= end
in_window(now_t, start, end) ==
    IF start <= end THEN start <= now_t /\ now_t < end
    ELSE now_t >= start \/ now_t < end

time_difference_minutes(time1, time2) ==
    IF time2 < time1 THEN time2 + MinutesPerDay - time1 ELSE time2 - time1

\* the two helpers take their hours as a number of minutes; the first
\* definition of each pair forgets the day boundary
SubtractNoWrap(t, minutes) == t - minutes
subtract_hours_from_time(t, minutes) == (t - minutes) % MinutesPerDay
AddNoWrap(t, minutes) == t + minutes
add_hours_to_time(t, minutes) == (t + minutes) % MinutesPerDay

\* subtract_hours_from_time(wind_down_target, 1.0)
WindDownMinutes == 60
\* add_hours_to_time(wake_up, 0.5)
WakeUpMinutes == 30

Progress(elapsed_minutes, total_minutes) ==
    clamp(IF total_minutes > 0 THEN Frac(elapsed_minutes, total_minutes)
          ELSE Frac(0, 1),
          Frac(0, 1), Frac(1, 1))

is_in_transition_period(now_t, wind_down_target, wake_up) ==
    LET pre_night_start ==
            subtract_hours_from_time(wind_down_target, WindDownMinutes)
        post_night_end == add_hours_to_time(wake_up, WakeUpMinutes)
    IN  IF in_window(now_t, pre_night_start, wind_down_target)
        THEN [is_transition |-> TRUE, wind_down |-> TRUE,
              progress |->
                  Progress(time_difference_minutes(pre_night_start, now_t),
                           time_difference_minutes(pre_night_start,
                                                   wind_down_target))]
        ELSE IF in_window(now_t, wake_up, post_night_end)
        THEN [is_transition |-> TRUE, wind_down |-> FALSE,
              progress |->
                  Progress(time_difference_minutes(wake_up, now_t),
                           time_difference_minutes(wake_up, post_night_end))]
        ELSE [is_transition |-> FALSE, wind_down |-> FALSE,
              progress |-> Frac(0, 1)]

(* ------------------------------ cct_to_rgb ----------------------------- *)
\* int() of a float that is not negative
int(x) == x.n \div x.d

\* The two power fits above 6600 K, 329.698727446 * ((k - 60) ** -0.1332047592)
\* and 288.1221695283 * ((k - 60) ** -0.0755148492) with k = kelvin / 100:
\* their values at the kelvins tried, cut to whole numbers
PowerFit ==
    6601 :> [r |-> 259, g |-> 251] @@ 6700 :> [r |-> 254, g |-> 248] @@
    7000 :> [r |-> 242, g |-> 242] @@ 8000 :> [r |-> 221, g |-> 229] @@
    10000 :> [r |-> 201, g |-> 218] @@ 20000 :> [r |-> 170, g |-> 198] @@
    39999 :> [r |-> 151, g |-> 185] @@ 40000 :> [r |-> 151, g |-> 185]

\* The linear fits, in hundred-thousandths, their coefficients cut to three
\* decimals of k: 99.4708025861 * k - 161.1195681661 and
\* 138.5177312231 * (k - 10) - 305.0447927307
GreenLinear(kelvin) == Frac(99471 * kelvin - 16111957, 100000)
BlueLinear(kelvin) == Frac(138518 * (kelvin - 1000) - 30504479, 100000)

Red(kelvin) ==
    IF kelvin <= 6600 THEN Frac(255, 1) ELSE Frac(PowerFit[kelvin].r, 1)

Green(kelvin) ==
    IF kelvin <= 6600 THEN GreenLinear(kelvin)
    ELSE Frac(PowerFit[kelvin].g, 1)

\* a blue channel that has no floor at 1900 K
BlueWithoutFloor(kelvin) ==
    IF kelvin >= 6600 THEN Frac(255, 1) ELSE BlueLinear(kelvin)
Blue(kelvin) ==
    IF kelvin >= 6600 THEN Frac(255, 1)
    ELSE IF kelvin <= 1900 THEN Frac(0, 1)
    ELSE BlueLinear(kelvin)

cct_to_rgb(kelvin) ==
    LET k == clamp(Frac(kelvin, 1), Frac(1000, 1), Frac(40000, 1)).n
        channel(v) == int(clamp(v, Frac(0, 1), Frac(255, 1)))
    IN  <<channel(Red(k)), channel(Green(k)), channel(Blue(k))>>

(* --------------------------- _compute_targets -------------------------- *)
\* Settings.sleep_b, Settings.sleep_k
sleep_b == 1
sleep_k == 2200
\* the brightness outside the night window and the ramps
FullBrightness == 100
\* the two ends of lerp(2200, 6500, tk)
MinK == 2200
MaxK == 6500
\* elev = -6.0
DefaultElevation == 0 - 6
\* (elev + 6.0) / (60.0 + 6.0)
ElevationLow == 0 - 6
ElevationHigh == 60

\* hass.states.get("sun.sun"): no state, a state without the attribute, or
\* a state with an elevation in whole degrees
NoSun == [present |-> FALSE, has_elevation |-> FALSE, elevation |-> 0]
SunWithout == [present |-> TRUE, has_elevation |-> FALSE, elevation |-> 0]
SunAt(d) == [present |-> TRUE, has_elevation |-> TRUE, elevation |-> d]

\* elev = -6.0; if sun: elev = float(sun.attributes.get("elevation", -6.0))
Elevation(sun) ==
    IF sun.present /\ sun.has_elevation THEN sun.elevation
    ELSE DefaultElevation

\* a colour temperature computed without the clamp
SunKelvinUnclamped(elev) ==
    round(lerp(MinK, MaxK,
               Frac(elev - ElevationLow, ElevationHigh - ElevationLow)))
\* k = int(round(lerp(2200, 6500, tk)))
SunKelvin(elev) ==
    LET tk == clamp(Frac(elev - ElevationLow, ElevationHigh - ElevationLow),
                    Frac(0, 1), Frac(1, 1))
    IN  round(lerp(MinK, MaxK, tk))

\* a computation that lets the ramps and the sun speak inside the night
\* window too
RampsInNight(now_t, w, sun) ==
    LET tr == is_in_transition_period(now_t,
                                      parse_time_str(w.wind_down_target),
                                      parse_time_str(w.wake_up))
    IN  [b |-> IF tr.is_transition
               THEN IF tr.wind_down
                    THEN round(lerp(FullBrightness, sleep_b, tr.progress))
                    ELSE round(lerp(sleep_b, FullBrightness, tr.progress))
               ELSE FullBrightness,
         k |-> SunKelvin(Elevation(sun))]
\* the (brightness, kelvin) of _compute_targets at the time of day now_t,
\* under the window settings w and the sun state
compute_targets(now_t, w, sun) ==
    LET wind_down_target == parse_time_str(w.wind_down_target)
        wake_up == parse_time_str(w.wake_up)
        tr == is_in_transition_period(now_t, wind_down_target, wake_up)
        b == IF tr.is_transition
             THEN IF tr.wind_down
                  THEN round(lerp(FullBrightness, sleep_b, tr.progress))
                  ELSE round(lerp(sleep_b, FullBrightness, tr.progress))
             ELSE FullBrightness
    IN  IF in_window(now_t, wind_down_target, wake_up)
        THEN [b |-> sleep_b, k |-> sleep_k]
        ELSE [b |-> b, k |-> SunKelvin(Elevation(sun))]

(* ------------------------ the helpers under study ---------------------- *)
\* the controller's own fields, which a helper call leaves alone
ctl == <<clock, light, timers, listeners, settings, unsub, event_unsub,
         unsub_error, enabled, manual_hold_entities, last_automation_change,
         tasks, tick_pc, tick_left, tick_cur, tick_off, last>>

\* a controller just constructed, about to call a helper with one of the
\* argument lists in `calls`
InitCalc(calls) ==
    /\ calc \in calls
    /\ clock = 0
    /\ light = [e \in Entities |-> "off"]
    /\ timers = {}
    /\ listeners = {}
    /\ settings = [exclude_entities |-> {}]
    /\ unsub = None
    /\ event_unsub = None
    /\ unsub_error = FALSE
    /\ enabled = TRUE
    /\ manual_hold_entities = {}
    /\ last_automation_change = [e \in Entities |-> NoAutomationChange]
    /\ tasks = [k \in TaskKinds |-> 0]
    /\ tick_pc = "idle"
    /\ tick_left = <<>>
    /\ tick_cur = NoEnt
    /\ tick_off = FALSE
    /\ last = Quiet

\* every minute of the day
NowChoices == 0..(MinutesPerDay - 1)

\* DEFAULT_NIGHT_START, DEFAULT_NIGHT_END
DefaultWindow == [wind_down_target |-> <<22, 0>>, wake_up |-> <<6, 30>>]

\* night windows: the default; one whose wind-down hour crosses midnight;
\* one whose wake-up half hour crosses midnight; an empty one; one so long
\* that it ends inside its own wind-down hour; one so long that it starts
\* again inside its own wake-up half hour
WindowChoices ==
    {DefaultWindow,
     [wind_down_target |-> <<0, 30>>, wake_up |-> <<7, 0>>],
     [wind_down_target |-> <<9, 0>>, wake_up |-> <<23, 45>>],
     [wind_down_target |-> <<12, 0>>, wake_up |-> <<12, 0>>],
     [wind_down_target |-> <<22, 0>>, wake_up |-> <<21, 15>>],
     [wind_down_target |-> <<6, 45>>, wake_up |-> <<6, 30>>]}

\* the range of solar elevations, in whole degrees
MinElevation == 0 - 90
MaxElevation == 90
SunChoices == {NoSun, SunWithout, SunAt(30)}
SunSweep == {SunAt(d) : d \in MinElevation..MaxElevation}
\* times of day at which the whole range of elevations is tried:
\* 00:00, 06:40, 12:00, 21:05, 21:30, 23:00
SweepTimes == {0, 400, 720, 1265, 1290, 1380}

TargetCall(now_t, w, sun) ==
    [fn |-> "compute_targets", done |-> FALSE, now |-> now_t, w |-> w,
     sun |-> sun, b |-> 0, k |-> 0]

\* every minute with a few sun states, and a few times of day with every
\* elevation, under the night windows ws
TargetCalls(ws) ==
    {TargetCall(t, w, sun) :
         t \in NowChoices, w \in ws, sun \in SunChoices}
    \cup {TargetCall(t, w, sun) :
             t \in SweepTimes, w \in ws, sun \in SunSweep}

\* _compute_targets returns
ComputeTargets ==
    /\ calc.fn = "compute_targets"
    /\ ~calc.done
    /\ calc' = [calc EXCEPT
                   !.done = TRUE,
                   !.b = compute_targets(calc.now, calc.w, calc.sun).b,
                   !.k = compute_targets(calc.now, calc.w, calc.sun).k]
    /\ UNCHANGED ctl

SpecTargets == InitCalc(TargetCalls(WindowChoices)) /\ [][ComputeTargets]_vars

\* the window bounds in_window is tried with: 22:00-06:00, 06:00-22:00,
\* 12:00-12:00, 23:30-00:00
BoundChoices == {<<1320, 360>>, <<360, 1320>>, <<720, 720>>, <<1410, 0>>}

WindowCalls(ws) ==
    {[fn |-> "in_window", done |-> FALSE, now |-> t, start |-> w[1],
      end |-> w[2], result |-> FALSE] :
         t \in NowChoices, w \in ws}

\* in_window returns
InWindow ==
    /\ calc.fn = "in_window"
    /\ ~calc.done
    /\ calc' = [calc EXCEPT
                   !.done = TRUE,
                   !.result = in_window(calc.now, calc.start, calc.end)]
    /\ UNCHANGED ctl

SpecWindow == InitCalc(WindowCalls(BoundChoices)) /\ [][InWindow]_vars

(* ------------------ _discover_targets, entity by entity ---------------- *)
SUPPORTED_COLOR_KEYS == {"supported_color_modes", "color_mode", "color_modes"}

\* `for key in SUPPORTED_COLOR_KEYS` walks a set of strings: the order is
\* that of the strings' hashes, which the interpreter draws anew for each
\* process, so any order of the three keys can be the one a run uses
KeyOrders ==
    {o \in [1..3 -> SUPPORTED_COLOR_KEYS] : \A i, j \in 1..3 : i # j => o[i] # o[j]}

\* the value an attribute has: none (key absent), None, a string, or a list
\* or set of colour modes
Absent == [kind |-> "absent", modes |-> {}]
NoneValue == [kind |-> "none", modes |-> {}]
StrValue == [kind |-> "str", modes |-> {}]
ListOf(ms) == [kind |-> "list", modes |-> ms]

\* for key in SUPPORTED_COLOR_KEYS: if key in attrs: color_modes = ...; break
ColorModes(attrs, order) ==
    IF attrs[order[1]].kind # "absent" THEN attrs[order[1]]
    ELSE IF attrs[order[2]].kind # "absent" THEN attrs[order[2]]
    ELSE IF attrs[order[3]].kind # "absent" THEN attrs[order[3]]
    ELSE NoneValue

\* modes = color_modes if it is a set, set(color_modes) if a list, else set()
Normalize(v) == IF v.kind = "list" THEN v.modes ELSE {}

\* what the loop body of _discover_targets makes of one entity: its mode,
\* or "none" when it gets no entry in the result
Classify(attrs, excluded, order) ==
    LET modes == Normalize(ColorModes(attrs, order))
        has_brightness == attrs.brightness \/ "brightness" \in modes
        supports_ct == "color_temp" \in modes \/ attrs.color_temp
        supports_rgb == "hs" \in modes \/ "rgb" \in modes
    IN  IF excluded THEN "none"
        ELSE IF ~has_brightness THEN "none"
        ELSE IF supports_ct THEN "ct"
        ELSE IF supports_rgb THEN "rgb"
        ELSE "none"

\* the lists of colour modes an entity is tried with
ModeSets == {{}, {"onoff"}, {"brightness"}, {"color_temp"}, {"hs"}, {"rgb"},
             {"color_temp", "hs"}, {"brightness", "color_temp"}}

\* the attribute sets an entity is tried with: supported_color_modes absent
\* or a list, color_mode absent, None or a string, no color_modes, with or
\* without a brightness and a color_temp attribute
AttrSets ==
    [supported_color_modes : {Absent} \cup {ListOf(ms) : ms \in ModeSets},
     color_mode : {Absent, NoneValue, StrValue},
     color_modes : {Absent},
     brightness : BOOLEAN,
     color_temp : BOOLEAN]

DiscoverCalls(as) ==
    {[fn |-> "discover", done |-> FALSE, attrs |-> a, excluded |-> x,
      order |-> o, mode |-> "none"] :
         a \in as, x \in BOOLEAN, o \in KeyOrders}

\* _discover_targets has gone through the entity
Discover ==
    /\ calc.fn = "discover"
    /\ ~calc.done
    /\ calc' = [calc EXCEPT
                   !.done = TRUE,
                   !.mode = Classify(calc.attrs, calc.excluded, calc.order)]
    /\ UNCHANGED ctl

SpecDiscover == InitCalc(DiscoverCalls(AttrSets)) /\ [][Discover]_vars

\* the colour temperatures cct_to_rgb is tried with: every hundred from
\* 1000 to 6600, the neighbours of the breakpoints, and some above 6600
KelvinChoices ==
    {1000 + 100 * i : i \in 0..56}
    \cup {0 - 500, 0, 999, 1001, 1899, 1901, 6599, 6601, 39999, 40001, 50000}
    \cup {6700, 7000, 8000, 10000, 20000, 40000}

RgbCalls ==
    {[fn |-> "cct_to_rgb", done |-> FALSE, kelvin |-> k, rgb |-> <<0, 0, 0>>] :
         k \in KelvinChoices}

\* cct_to_rgb returns
CctToRgb ==
    /\ calc.fn = "cct_to_rgb"
    /\ ~calc.done
    /\ calc' = [calc EXCEPT !.done = TRUE, !.rgb = cct_to_rgb(calc.kelvin)]
    /\ UNCHANGED ctl

SpecRgb == InitCalc(RgbCalls) /\ [][CctToRgb]_vars

(* ------------------------------- claims -------------------------------- *)

\* C1: an apply sequence whose entity turned off after its brightness write
\* and before its colour write issues no colour write (`pre` of a colour
\* write tells whether the entity went off during the sequence's delay).
C1_NoColourAfterOff == IsColorWrite(last) => ~last.pre

\* C2: no brightness or colour write is issued for an entity that is in
\* the manual-hold set.
C2_NoWriteWhileHeld == IsWrite(last) => last.ent \notin manual_hold_entities

\* C3: handling an on-to-on notification of a discovered entity on an
\* enabled controller: if one of brightness, color_temp, rgb_color differs
\* and the change time is more than 1 second after the entity's
\* lastAutomationChangeAt, the entity is Held afterwards; if none of the
\* three differs, the notification does not make it Held.
C3_ManualChangeHolds ==
    [][\A e \in Entities, a \in AttrChoices :
          LET ev == Event(e, "on", a)
          IN  (light[e] = "on" /\ enabled /\ e \in DiscoverTargets
               /\ Handled(ev))
              => /\ (/\ \/ a.brightness # BaseAttrs.brightness
                        \/ a.color_temp # BaseAttrs.color_temp
                        \/ a.rgb_color # BaseAttrs.rgb_color
                     /\ clock > last_automation_change[e] + 1)
                    => e \in manual_hold_entities'
                 /\ a = BaseAttrs
                    => (e \in manual_hold_entities'
                        => e \in manual_hold_entities)]_vars

\* an on-to-on change of an attribute, later than the grace period, made a
\* Free entity Held
C3_Witness ==
    /\ last.op = "ev_adjust"
    /\ last.pre
    /\ last.ent \in manual_hold_entities
    /\ clock > GracePeriod

\* C4: an attribute change notified right after the controller's colour
\* write for the entity, in the same second, is not taken for a manual
\* change (the Held flag is left as it was).
C4_GraceAfterWrite ==
    (last.op = "ev_adjust" /\ last.seq = AfterWrite) => ~last.pre

\* C5: handling an off-to-on notification of a discovered entity on an
\* enabled controller leaves the entity not Held, whatever it was before.
C5_TurnOnClearsHold ==
    [][\A e \in Entities :
          LET ev == Event(e, "on", BaseAttrs)
          IN  (light[e] # "on" /\ enabled /\ allowed(settings, e)
               /\ Handled(ev))
              => e \notin manual_hold_entities']_vars

\* a Held entity was turned on and is Free
C5_Witness ==
    /\ last.op = "ev_on"
    /\ last.pre
    /\ last.ent \notin manual_hold_entities

\* C6: when a sequence issues a write for an entity, no other sequence of
\* that entity is between its brightness write and its end.
C6_NoOverlap ==
    IsWrite(last) =>
        InFlight(last.ent) <= (IF last.op = "write_b" THEN 1 ELSE 0)

\* C7: a task of the turn-on branch that has not finished and is not
\* cancelled is the one self._pending_tasks holds for its entity.
C7_TrackedUntilDone ==
    \A k \in TaskKinds : (tasks[k] > 0 /\ Alive(k)) => k.tracked

\* C8: when a tick ends, no entity of its targets that is on and not Held
\* is left unexamined.
C8_TickReachesAll ==
    (tick_pc = "done" /\ last.seq = TickSeq)
        => \A i \in 1..Len(tick_left) : ~Eligible(tick_left[i])

\* C9: handling an on-to-off notification of a discovered entity on an
\* enabled controller cancels the sequence self._pending_tasks holds for it
\* and removes the entry, and nothing else: Held flags, timestamps,
\* subscriptions, the tick and the other tasks are as before and no write
\* is issued.
C9_TurnOffOnlyCancels ==
    [][\A e \in Entities :
          LET ev == Event(e, "off", BaseAttrs)
              had == HasPending(tasks, e) /\ Alive(PendingOf(tasks, e))
          IN  (light[e] = "on" /\ enabled /\ allowed(settings, e)
               /\ Handled(ev))
              => /\ ~HasPending(tasks', e)
                 /\ AliveTasks(tasks', e)
                      = AliveTasks(tasks, e) - (IF had THEN 1 ELSE 0)
                 /\ Count(tasks') = Count(tasks)
                 /\ \A k \in TaskKinds : k.ent # e => tasks'[k] = tasks[k]
                 /\ ~IsWrite(last')
                 /\ UNCHANGED <<manual_hold_entities, last_automation_change,
                                enabled, settings, timers, listeners, unsub,
                                event_unsub, tick_pc, tick_left, tick_cur,
                                clock>>]_vars

\* a turn-off notification cancelled a pending sequence
C9_Witness == last.op = "ev_off" /\ last.pre

\* C10: no stop() calls a subscription handle that was already removed,
\* and after any stop() no timer and no event subscription is live and
\* both handle fields are None.
C10_StopIdempotent ==
    /\ ~unsub_error
    /\ last.op = "stop"
       => /\ timers = {} /\ listeners = {}
          /\ unsub = None /\ event_unsub = None

\* stop() was called twice in a row
C10_Witness == last.op = "stop" /\ last.pre /\ ~unsub_error

\* C11: update_settings(new) makes `new` the active settings and leaves
\* the manual-hold set, the timestamps, the tasks and their pending entries,
\* the enabled flag and the event subscription as they were; the timer
\* subscription is replaced only if the two intervals differ, and is left
\* as it is when they are equal.
C11_UpdateSettingsFrame ==
    [][\A x \in ExcludeChoices :
          LET new == [exclude_entities |-> x]
          IN  UpdateSettings(new)
              => /\ settings' = new
                 /\ UNCHANGED <<manual_hold_entities, last_automation_change,
                                tasks, enabled, listeners, event_unsub>>
                 /\ last'.pre => IntervalOf(settings) # IntervalOf(new)
                 /\ IntervalOf(settings) = IntervalOf(new)
                    => (~last'.pre /\ UNCHANGED <<timers, unsub>>)]_vars

\* the settings were replaced while a timer was live, an entity was Held
\* and a sequence was pending
C11_Witness ==
    /\ last.op = "update_settings"
    /\ settings.exclude_entities # {}
    /\ timers # {}
    /\ manual_hold_entities # {}
    /\ \E e \in Entities : HasPending(tasks, e)

\* C12: a target computed at a time of day inside [nightStart, nightEnd),
\* the window wrapping past midnight when nightEnd < nightStart, is
\* (sleepBrightness, sleepColorTemp) whatever the sun state; with the
\* default window 22:00-06:30 the target at 23:00 is (1, 2200).
C12_NightOverride ==
    (calc.fn = "compute_targets" /\ calc.done) =>
        LET s == calc.w.wind_down_target[1] * 60 + calc.w.wind_down_target[2]
            e == calc.w.wake_up[1] * 60 + calc.w.wake_up[2]
            night == IF e < s THEN calc.now >= s \/ calc.now < e
                     ELSE s <= calc.now /\ calc.now < e
        IN  /\ night => (calc.b = sleep_b /\ calc.k = sleep_k)
            /\ (calc.w = DefaultWindow /\ calc.now = 23 * 60)
               => (calc.b = 1 /\ calc.k = 2200)

\* the target at 23:00 under the default window, the sun 30 degrees up
C12_Witness ==
    /\ calc.fn = "compute_targets" /\ calc.done
    /\ calc.w = DefaultWindow /\ calc.now = 23 * 60
    /\ calc.sun = SunAt(30)
    /\ calc.b = 1 /\ calc.k = 2200

\* C13: in_window(now, start, end) is true exactly when now is in
\* [start, end), or, when end < start, when now >= start or now < end:
\* with 22:00-06:00 it is true at 23:00 and 05:00 and false at 12:00; it is
\* true at start and false at end.
C13_InWindowHalfOpen ==
    (calc.fn = "in_window" /\ calc.done) =>
        /\ calc.result <=>
               IF calc.end < calc.start
               THEN calc.now >= calc.start \/ calc.now < calc.end
               ELSE calc.start <= calc.now /\ calc.now < calc.end
        /\ (calc.start = 22 * 60 /\ calc.end = 6 * 60) =>
               /\ calc.now \in {23 * 60, 5 * 60} => calc.result
               /\ calc.now = 12 * 60 => ~calc.result
        /\ (calc.now = calc.start /\ calc.start # calc.end) => calc.result
        /\ calc.now = calc.end => ~calc.result

\* 05:00 lies in the window 22:00-06:00
C13_Witness ==
    /\ calc.fn = "in_window" /\ calc.done
    /\ calc.start = 22 * 60 /\ calc.end = 6 * 60 /\ calc.now = 5 * 60
    /\ calc.result

\* C14 as stated: at every time of day in the 60 minutes before nightStart
\* the brightness is the integer nearest to 100 + (sleepBrightness - 100) *
\* elapsed / 60, elapsed counted from nightStart - 1h, so 100 at
\* nightStart - 1h; and at nightStart it is sleepBrightness.
C14_AsStated ==
    (calc.fn = "compute_targets" /\ calc.done) =>
        LET s == calc.w.wind_down_target[1] * 60 + calc.w.wind_down_target[2]
            el == (calc.now + MinutesPerDay + 60 - s) % MinutesPerDay
            exact == 100 * 60 + (sleep_b - 100) * el
            diff == 60 * calc.b - exact
        IN  /\ el < 60 => (2 * diff <= 60 /\ 2 * diff >= 0 - 60)
            /\ el = 0 => calc.b = 100
            /\ calc.now = s => calc.b = sleep_b

\* C14: at every time of day in the 60 minutes before nightStart that is
\* not inside the night window, the brightness is the integer nearest to
\* 100 + (sleepBrightness - 100) * elapsed / 60, elapsed counted from
\* nightStart - 1h (the hour may cross midnight): 100 at nightStart - 1h,
\* not higher a minute later, and sleepBrightness at nightStart.
C14_WindDownRamp ==
    (calc.fn = "compute_targets" /\ calc.done) =>
        LET s == calc.w.wind_down_target[1] * 60 + calc.w.wind_down_target[2]
            e == calc.w.wake_up[1] * 60 + calc.w.wake_up[2]
            night(t) == IF e < s THEN t >= s \/ t < e ELSE s <= t /\ t < e
            el == (calc.now + MinutesPerDay + 60 - s) % MinutesPerDay
            exact == 100 * 60 + (sleep_b - 100) * el
            diff == 60 * calc.b - exact
            later == (calc.now + 1) % MinutesPerDay
        IN  /\ (el < 60 /\ ~night(calc.now))
               => (2 * diff <= 60 /\ 2 * diff >= 0 - 60)
            /\ (el = 0 /\ ~night(calc.now)) => calc.b = 100
            /\ (el < 59 /\ ~night(calc.now) /\ ~night(later))
               => compute_targets(later, calc.w, calc.sun).b <= calc.b
            /\ calc.now = s => calc.b = sleep_b

\* a quarter of an hour into a wind-down hour that began before midnight
C14_Witness ==
    /\ calc.fn = "compute_targets" /\ calc.done
    /\ calc.w.wind_down_target = <<0, 30>>
    /\ calc.now = 23 * 60 + 45
    /\ calc.b = 75

\* C15 as stated: with nightStart 22:00 and sleepBrightness 1, the
\* brightness computed at 21:05 with the sun 30 degrees up is 59.
C15_AsStated ==
    (/\ calc.fn = "compute_targets" /\ calc.done
     /\ calc.w.wind_down_target = <<22, 0>>
     /\ calc.now = 21 * 60 + 5
     /\ calc.sun = SunAt(30))
        => calc.b = 59

\* C15: with the default window (nightStart 22:00, sleepBrightness 1) and
\* the sun 30 degrees up, 21:05 is 5 minutes into the wind-down hour and
\* the brightness is lerp(100, 1, 5/60) = 91.75 rounded to 92; the value
\* lerp(100, 1, 25/60) = 58.75 rounded to 59 is the brightness at 21:25.
C15_Scenario ==
    (/\ calc.fn = "compute_targets" /\ calc.done
     /\ calc.w = DefaultWindow
     /\ calc.sun = SunAt(30))
        => /\ calc.now = 21 * 60 + 5 => calc.b = 92
           /\ calc.now = 21 * 60 + 25 => calc.b = 59

\* the target computed at 21:05 under the default window
C15_Witness ==
    /\ calc.fn = "compute_targets" /\ calc.done
    /\ calc.w = DefaultWindow
    /\ calc.sun = SunAt(30)
    /\ calc.now = 21 * 60 + 5
    /\ calc.b = 92

C17_RangeAndMonotone ==
    (calc.fn = "compute_targets" /\ calc.done) =>
        LET s == calc.w.wind_down_target[1] * 60 + calc.w.wind_down_target[2]
            e == calc.w.wake_up[1] * 60 + calc.w.wake_up[2]
            night == IF e < s THEN calc.now >= s \/ calc.now < e
                     ELSE s <= calc.now /\ calc.now < e
            d == calc.sun.elevation
            c == IF d + 6 < 0 THEN 0 ELSE IF d + 6 > 66 THEN 66 ELSE d + 6
            diff == 66 * calc.k - (2200 * 66 + 4300 * c)
            higher == compute_targets(calc.now, calc.w, SunAt(d + 1))
        IN  /\ 2200 <= calc.k /\ calc.k <= 6500
            /\ 1 <= calc.b /\ calc.b <= 100
            /\ (calc.sun.present /\ calc.sun.has_elevation) =>
                   /\ d < MaxElevation
                      => (higher.k >= calc.k /\ higher.b >= calc.b)
                   /\ ~night => (2 * diff <= 66 /\ 2 * diff >= 0 - 66)

\* noon under the default window with the sun 27 degrees up: half way from
\* 2200 to 6500
C17_Witness ==
    /\ calc.fn = "compute_targets" /\ calc.done
    /\ calc.w = DefaultWindow
    /\ calc.now = 12 * 60
    /\ calc.sun = SunAt(27)
    /\ calc.k = 4350 /\ calc.b = 100

\* C18: an entity is a target exactly when it is not excluded, reports
\* brightness (the attribute, or the mode in a list of colour modes it
\* advertises) and advertises colour temperature, hue/saturation or RGB;
\* its mode is "ct" if it advertises colour temperature (the attribute or
\* the mode), otherwise "rgb".
C18_Classification ==
    (calc.fn = "discover" /\ calc.done) =>
        LET adv == UNION {Normalize(calc.attrs[key]) :
                              key \in SUPPORTED_COLOR_KEYS}
            brightness == calc.attrs.brightness \/ "brightness" \in adv
            ct == calc.attrs.color_temp \/ "color_temp" \in adv
            rgb == "hs" \in adv \/ "rgb" \in adv
        IN  calc.mode = IF calc.excluded \/ ~brightness THEN "none"
                        ELSE IF ct THEN "ct"
                        ELSE IF rgb THEN "rgb"
                        ELSE "none"

\* C19: with the sun's state missing or without an elevation the target
\* is the one of an elevation of -6 degrees, whose colour temperature
\* outside the night window is 2200; the tick issues no write for an
\* entity whose state is missing and, having passed over one, runs to the
\* end of its loop; and no sequence issues its colour write for an entity
\* whose state is missing.
C19_DegradedInputs ==
    /\ \A t \in {12 * 60, 23 * 60}, sun \in {NoSun, SunWithout} :
           /\ compute_targets(t, DefaultWindow, sun)
                  = compute_targets(t, DefaultWindow, SunAt(0 - 6))
           /\ compute_targets(12 * 60, DefaultWindow, sun).k = 2200
    /\ (IsWrite(last) /\ last.seq = TickSeq) => light[last.ent] = "on"
    /\ IsColorWrite(last) => light[last.ent] # "none"
    /\ (last.seq = TickSeq /\ last.pre /\ ~IsColorWrite(last))
           => (tick_pc = "sleep" \/ tick_left = <<>>)

\* a tick whose first entity lost its state during the delay gave up that
\* entity's sequence at the re-check, passed over a second entity whose
\* state was missing too, and ended
C19_Witness ==
    /\ last.op = "tick_end" /\ last.pre
    /\ \A e \in Entities : light[e] = "none"

\* C20: every component cct_to_rgb returns is a whole number in 0..255;
\* red is 255 at or below 6600 K; blue is 0 at or below 1900 K;
\* cct_to_rgb(6600) = (255, 255, 255); cct_to_rgb(1000) has red 255 and
\* blue 0; below 1000 K the result is that of 1000 K and above 40000 K that
\* of 40000 K.
C20_CctToRgb ==
    (calc.fn = "cct_to_rgb" /\ calc.done) =>
        /\ \A i \in 1..3 : calc.rgb[i] \in 0..255
        /\ calc.kelvin <= 6600 => calc.rgb[1] = 255
        /\ calc.kelvin <= 1900 => calc.rgb[3] = 0
        /\ calc.kelvin = 6600 => calc.rgb = <<255, 255, 255>>
        /\ calc.kelvin = 1000 => (calc.rgb[1] = 255 /\ calc.rgb[3] = 0)
        /\ calc.kelvin < 1000 => calc.rgb = cct_to_rgb(1000)
        /\ calc.kelvin > 40000 => calc.rgb = cct_to_rgb(40000)

\* 1900 K: the warmest colour with no blue at all
C20_Witness ==
    /\ calc.fn = "cct_to_rgb" /\ calc.done
    /\ calc.kelvin = 1900
    /\ calc.rgb = <<255, 255, 0>>

\* C21: the attribute change that follows the controller's own brightness
\* write, notified while the sequence is in its delay, is not taken for a
\* manual change: it does not make the entity Held.
C21_OwnWriteNotManual ==
    (last.op = "ev_adjust" /\ last.seq = AfterBrightness) => ~last.pre

\* C22: when a sequence has issued its colour write for an entity, the
\* entity's lastAutomationChangeAt is the time of that write.
C22_StampAfterColour ==
    IsColorWrite(last) => last_automation_change[last.ent] = clock

(* ------------------------- the service payloads ------------------------ *)
\* Settings.transition, seconds
transition == 2

data_brightness(brightness) ==
    [transition |-> transition, brightness_pct |-> brightness]
data_ct_color(k) == [transition |-> transition, color_temp_kelvin |-> k]
data_rgb_color(k) == [transition |-> transition, rgb_color |-> cct_to_rgb(k)]

\* the service data of a light.turn_on call of a sequence whose targets are
\* (brightness, k)
Payload(op, brightness, k) ==
    IF op = "write_b" THEN data_brightness(brightness)
    ELSE IF op = "write_ct" THEN data_ct_color(k)
    ELSE data_rgb_color(k)

\* targets at the two ends of the range of _compute_targets
TargetEnds == {<<sleep_b, sleep_k>>, <<FullBrightness, MaxK>>}

\* C23: a colour write for an entity comes from a sequence of that entity
\* that issued its brightness write and was suspended since (a sequence
\* enters its delay only by a brightness write for its entity); it is issued
\* only with the entity on at the re-check; it carries the kelvin value for a
\* "ct" entity and cct_to_rgb of it for an "rgb" entity; no write carries
\* both brightness and colour.
C23_WriteOrdering ==
    [][/\ \A e \in Entities :
              InFlightOf(tasks', tick_pc', tick_cur', e) > InFlight(e) =>
                  (last'.op = "write_b" /\ last'.ent = e)
       /\ IsColorWrite(last') =>
              /\ InFlight(last'.ent) > 0
              /\ InFlightOf(tasks', tick_pc', tick_cur', last'.ent)
                     = InFlight(last'.ent) - 1
              /\ light[last'.ent] = "on" /\ light'[last'.ent] = "on"
              /\ \A t \in TargetEnds :
                    LET p == Payload(last'.op, t[1], t[2])
                    IN  /\ "brightness_pct" \notin DOMAIN p
                        /\ IF Mode(last'.ent) = "ct"
                           THEN /\ DOMAIN p = {"transition", "color_temp_kelvin"}
                                /\ p.color_temp_kelvin = t[2]
                           ELSE /\ DOMAIN p = {"transition", "rgb_color"}
                                /\ p.rgb_color = cct_to_rgb(t[2])
       /\ last'.op = "write_b" =>
              \A t \in TargetEnds :
                  DOMAIN Payload(last'.op, t[1], t[2])
                      = {"transition", "brightness_pct"}]_vars

\* the colour write of a tick's sequence for the rgb light
C23_Witness ==
    /\ last.op = "write_rgb" /\ last.seq = TickSeq
    /\ light[last.ent] = "on"

\* C24: a tick does not wait for the delay of one entity before it issues
\* the brightness write of the next: when it has issued a brightness write
\* and is suspended, no eligible entity of its targets is still waiting for
\* its own.
C24_TickNotSerial ==
    (tick_pc = "sleep" /\ last.op = "write_b" /\ last.seq = TickSeq)
        => \A i \in 1..Len(tick_left) : ~Eligible(tick_left[i])

\* C25: is_enabled() is true after construction and set_enabled changes the
\* flag and nothing else; on a disabled controller a tick ends at once and a
\* notification is dropped: neither issues a write, starts or cancels a
\* sequence, or changes the Held set, lastAutomationChangeAt or the pending
\* map.
C25_DisabledFrame ==
    /\ enabled = TRUE
    /\ [][/\ \A b \in BOOLEAN :
                SetEnabled(b) =>
                    /\ enabled' = b
                    /\ UNCHANGED <<light, timers, listeners, settings, unsub,
                                   event_unsub, unsub_error,
                                   manual_hold_entities,
                                   last_automation_change, tasks, tick_pc,
                                   tick_left, tick_cur, tick_off>>
          /\ (~enabled /\ TickFire) =>
                 /\ tick_pc' = "done" /\ ~IsWrite(last')
                 /\ UNCHANGED <<enabled, manual_hold_entities,
                                last_automation_change, tasks>>
          /\ \A e \in Entities, new \in {"on", "off"},
                a \in {BaseAttrs, Manual} :
                (~enabled /\ Handled(Event(e, new, a))) =>
                    /\ ~IsWrite(last')
                    /\ UNCHANGED <<enabled, manual_hold_entities,
                                   last_automation_change, tick_pc, tick_left,
                                   tick_cur>>
                    /\ Count(tasks') = Count(tasks)
                    /\ \A x \in Entities :
                          /\ HasPending(tasks', x) = HasPending(tasks, x)
                          /\ AliveTasks(tasks', x) = AliveTasks(tasks, x)]_vars

\* a disabled controller dropped a notification while an entity was Held and
\* a sequence was pending
C25_Witness ==
    /\ ~enabled
    /\ last.op = "ev_return" /\ ~last.pre
    /\ manual_hold_entities # {}
    /\ \E e \in Entities : HasPending(tasks, e)

\* C26: no write is issued by a controller that is stopped or disabled: a
\* sequence in flight when stop() returns or when the switch goes off does
\* not go on to its colour write.
C26_NoWriteAfterStop ==
    IsWrite(last) => (enabled /\ unsub # None /\ event_unsub # None)

\* C27: an entity leaves the Held set only in the step that handles its
\* off-to-on notification on an enabled controller; across every other
\* step (tick, attribute change, turn-off, settings update, the switch,
\* start, stop, the steps of the sequences) a Held entity stays Held.
C27_HeldOnlyLeftByTurnOn ==
    [][\A e \in Entities :
          (e \in manual_hold_entities /\ e \notin manual_hold_entities') =>
              /\ enabled
              /\ light[e] # "on" /\ light'[e] = "on"
              /\ last'.op = "ev_on" /\ last'.ent = e /\ last'.pre]_vars

\* a Held entity was released by its turn-on notification
C27_Witness ==
    /\ last.op = "ev_on" /\ last.pre
    /\ last.ent \notin manual_hold_entities
    /\ light[last.ent] = "on"

\* C28: after any calls of start(), stop() and update_settings() at most one
\* timer subscription and at most one event subscription are live, the live
\* ones are exactly those the controller holds a handle of (every other one
\* it created has been cancelled), and after start() it holds one of each.
C28_Subscriptions ==
    /\ Cardinality(timers) <= 1
    /\ Cardinality(listeners) <= 1
    /\ timers = (IF unsub = None THEN {} ELSE {unsub})
    /\ listeners = (IF event_unsub = None THEN {} ELSE {event_unsub})
    /\ last.op = "start" =>
           /\ unsub # None /\ event_unsub # None
           /\ Cardinality(timers) = 1 /\ Cardinality(listeners) = 1

\* start() was called on a running controller
C28_Witness ==
    /\ last.op = "start" /\ last.pre
    /\ timers = {unsub} /\ listeners = {event_unsub}

\* C29: the mode _discover_targets gives an entity is the same whichever of
\* the keys supported_color_modes, color_mode and color_modes the loop over
\* SUPPORTED_COLOR_KEYS examines first.
C29_OrderIndependent ==
    (calc.fn = "discover" /\ calc.done) =>
        \A o \in KeyOrders :
            Classify(calc.attrs, calc.excluded, o) = calc.mode

\* C30: over the operating range 2200..6500 K the blue component of
\* cct_to_rgb does not decrease as kelvin grows, and the colour of 2200 K
\* differs from that of 6500 K: its blue and its green are strictly lower.
C30_WarmerIsWarmer ==
    (calc.fn = "cct_to_rgb" /\ calc.done /\ calc.kelvin \in MinK..MaxK) =>
        /\ \A k2 \in KelvinChoices :
               (calc.kelvin <= k2 /\ k2 <= MaxK)
                   => calc.rgb[3] <= cct_to_rgb(k2)[3]
        /\ calc.kelvin = MinK =>
               /\ calc.rgb # cct_to_rgb(MaxK)
               /\ calc.rgb[3] < cct_to_rgb(MaxK)[3]
               /\ calc.rgb[2] < cct_to_rgb(MaxK)[2]

\* C31: every sequence a turn-on notification started comes to its end
\* (colour write, abort at the re-check, or cancellation), and once the
\* notifications have stopped self._pending_tasks becomes empty and stays
\* empty, with no task left that is not over.
C31_SequencesEnd ==
    /\ \A e \in Entities :
           (AliveTasks(tasks, e) > 0) ~> (AliveTasks(tasks, e) = 0)
    /\ <>[](\A e \in Entities :
               ~HasPending(tasks, e) /\ AliveTasks(tasks, e) = 0)

\* the notifications have stopped, the last sequence is over and its
\* done-callback has run: no task and no entry is left
C31_Witness ==
    /\ clock = MaxTime
    /\ last.op = "cleanup"
    /\ Count(tasks) = 0

====
